---- MODULE Spec2Model ----
(***************************************************************************)
(* Model of the ai-service moderation pipeline                              *)
(* (services/moderation_service.py) and of the background polling service   *)
(* (services/polling_service.py) as started and stopped by main.lifespan.   *)
(*                                                                          *)
(* Scores and confidences are the Python floats times 100 (0.7 -> 70).      *)
(***************************************************************************)
EXTENDS Integers, Sequences, FiniteSets, TLC

VARIABLES
    \* ---- PollingService (polling_service.py) ----
    _running,      \* self._running
    _task,         \* self._task: 0 is None, else the id of an asyncio task
    tasks,         \* the asyncio tasks ever created by start(), by id
    unmoderated,   \* companion backend: ids of the comments still unmoderated
    caller,        \* the coroutine calling start()/stop() (main.lifespan)
    \* ---- one call of ModerationService.moderate_comment ----
    comment,       \* the text under moderation
    m,             \* the locals of moderate_comment and its position
    result,        \* what the call returned (or that it raised)
    \* ---- one call of RecommendationsService.get_personalized_recommendations
    rec,           \* its arguments, its locals and its position
    rec_out,       \* what the call returned (or that it raised)
    \* ---- one HTTP request to the service (routers/*.py) ----
    key_set,       \* bool(os.getenv("OPENAI_API_KEY"))
    req,           \* the request: its endpoint and what the handler reads of it
    h,             \* the handler's position and what it has done so far
    response       \* the HTTP response sent

pollVars == <<_running, _task, tasks, unmoderated, caller>>
modVars == <<comment, m, result>>
recVars == <<rec, rec_out>>
apiVars == <<key_set, req, h, response>>
nonPollVars == <<modVars, recVars, apiVars>>
nonModVars == <<pollVars, recVars, apiVars>>
nonRecVars == <<pollVars, modVars, apiVars>>
nonApiVars == <<pollVars, modVars, recVars>>
vars == <<_running, _task, tasks, unmoderated, caller, comment, m, result,
          rec, rec_out, key_set, req, h, response>>

(***************************************************************************)
(* Bounds of the model                                                      *)
(***************************************************************************)
MaxTasks == 2        \* start() creates at most this many tasks in a run
NumComments == 3     \* comments the backend holds
MaxEvents == 21      \* available_events holds at most this many events
MaxItems == 3        \* recommendations the remote model returns in one call
MaxUnits == 2        \* comments, batches, events or feedback entries of a request

(***************************************************************************)
(* Configuration read from the environment                                  *)
(***************************************************************************)
threshold == 70          \* MODERATION_THRESHOLD, default 0.7
poll_interval == 60      \* MODERATION_POLL_INTERVAL, default 60
batch_size == 2          \* MODERATION_BATCH_SIZE (default 50), scaled down
NumSpamPatterns == 4     \* len(self.spam_patterns)

Max(a, b) == IF a >= b THEN a ELSE b
Range(seq) == { seq[i] : i \in 1..Len(seq) }

(***************************************************************************)
(* Severity levels and escalation                                           *)
(***************************************************************************)
levels == <<"none", "low", "medium", "high", "critical">>

\* levels.index(s)
LevelIndex(s) == CHOOSE i \in 1..Len(levels) : levels[i] = s

\* _escalate_severity that takes the new level whatever the current one
_escalate_severity_mut(current, new) == levels[LevelIndex(new)]

\* ModerationService._escalate_severity
_escalate_severity(current, new) ==
    levels[Max(LevelIndex(current), LevelIndex(new))]

(***************************************************************************)
(* Texts.  A text is what the checks read of it: its length, its number of  *)
(* upper-case characters, the spam patterns that re.search finds in         *)
(* text.lower(), and the answer of better_profanity.contains_profanity.     *)
(***************************************************************************)
TextShapes == { <<5, 0>>, <<5, 5>>, <<11, 5>>, <<11, 6>>, <<20, 11>>,
                <<21, 0>>, <<21, 10>>, <<21, 11>> }
PatternSets == { {}, {2}, {1, 3}, 1..NumSpamPatterns }
Texts == { [len |-> s[1], upper |-> s[2], pats |-> p, profane |-> b] :
             s \in TextShapes, p \in PatternSets, b \in BOOLEAN }

\* ModerationService._check_profanity
_check_profanity(text) == [contains_profanity |-> text.profane]

\* _check_spam counting capitals in text_lower, where there are none
_check_spam_mut(text) ==
    LET hit(i) == i \in text.pats
        matches == SelectSeq([i \in 1..NumSpamPatterns |-> i], hit)
    IN  [is_spam |-> Len(matches) > 0, patterns_matched |-> matches]

\* ModerationService._check_spam: the patterns in list order, then the
\* excessive-capitals rule (len > 10 and upper/len > 0.5)
_check_spam(text) ==
    LET hit(i) == i \in text.pats
        matches == SelectSeq([i \in 1..NumSpamPatterns |-> i], hit)
        caps == text.len > 10 /\ 2 * text.upper > text.len
        all == IF caps THEN Append(matches, 0) ELSE matches
    IN  [is_spam |-> Len(all) > 0, patterns_matched |-> all]

(***************************************************************************)
(* Replies of the remote classifier                                         *)
(***************************************************************************)
Num(v) == [t |-> "num", v |-> v]
Missing == [t |-> "missing", v |-> 0]
NonNum == [t |-> "nonnum", v |-> 0]
ScoreValues == { Missing, NonNum, Num(threshold), Num(threshold + 1) }
ConfValues == { Missing, Num(90) }

\* JSON values a reply can hold
JsonObjects == [ type : {"object"}, toxicity : ScoreValues, harassment : ScoreValues,
                 hate_speech : ScoreValues, inappropriate : ScoreValues,
                 confidence : ConfValues ]
JsonNonObject == [ type |-> "nonobject", toxicity |-> Missing, harassment |-> Missing,
                   hate_speech |-> Missing, inappropriate |-> Missing,
                   confidence |-> Missing ]
JsonValues == JsonObjects \cup {JsonNonObject}

\* What llm.ainvoke does: it raises, or it returns a text.  The text is plain
\* or starts with a ``` fence; after the fence (or at the start, unfenced)
\* comes a language tag: none, "json" or another word; then valid JSON or not.
Wrappings == { <<FALSE, "none">>, <<FALSE, "json">>, <<TRUE, "none">>,
               <<TRUE, "json">>, <<TRUE, "other">> }
Reply(kind, w, valid, json) ==
    [kind |-> kind, fence |-> w[1], lang |-> w[2], valid |-> valid, json |-> json]
RaisedReply == Reply("raise", <<FALSE, "none">>, FALSE, JsonNonObject)
GarbageReplies == { Reply("text", w, FALSE, JsonNonObject) : w \in Wrappings }
JsonReplies == { Reply("text", w, TRUE, j) : w \in Wrappings, j \in JsonValues }
Replies == {RaisedReply} \cup GarbageReplies \cup JsonReplies

\* the except branch of _llm_analysis
FallbackScores ==
    [ type |-> "object", toxicity |-> Num(0), harassment |-> Num(0),
      hate_speech |-> Num(0), inappropriate |-> Num(0), confidence |-> Num(50) ]

\* json.loads succeeds on the content left after fence handling: the fence
\* branch drops the fence and a leading "json"; any other leading tag stays
\* in the content and makes json.loads raise.
ParsesAsJson(reply) ==
    /\ reply.valid
    /\ \/ reply.lang = "none"
       \/ reply.fence /\ reply.lang = "json"

\* _llm_analysis whose except branch returns nothing (None)
_llm_analysis_mut(reply) ==
    IF reply.kind = "raise" THEN JsonNonObject
    ELSE IF ParsesAsJson(reply) THEN reply.json
    ELSE JsonNonObject

\* ModerationService._llm_analysis
_llm_analysis(reply) ==
    IF reply.kind = "raise" THEN FallbackScores
    ELSE IF ParsesAsJson(reply) THEN reply.json
    ELSE FallbackScores

(***************************************************************************)
(* moderate_comment: its locals, its three layers and its return value      *)
(***************************************************************************)
\* lines 58-61: flags = [], severity = "none", confidence = 1.0,
\* detected_issues = {} (here the set of its keys)
InitLocals ==
    [flags |-> <<>>, severity |-> "none", confidence |-> 100, detected_issues |-> {}]

\* severity assigned instead of escalated
AddFlag_mut(st, flag, sev) ==
    [st EXCEPT !.flags = Append(@, flag),
               !.detected_issues = @ \cup {flag},
               !.severity = sev]

\* flags.append(flag); detected_issues[flag] = ...; severity = escalate(...)
AddFlag(st, flag, sev) ==
    [st EXCEPT !.flags = Append(@, flag),
               !.detected_issues = @ \cup {flag},
               !.severity = _escalate_severity(@, sev)]

\* layer 1 that records profanity at severity low
ProfanityLayer_mut(st, text) ==
    IF _check_profanity(text).contains_profanity
    THEN AddFlag(st, "profanity", "low")
    ELSE st

\* Layer 1: fast local profanity check
ProfanityLayer(st, text) ==
    IF _check_profanity(text).contains_profanity
    THEN AddFlag(st, "profanity", "medium")
    ELSE st

\* Layer 2: spam detection
SpamLayer(st, text) ==
    IF _check_spam(text).is_spam THEN AddFlag(st, "spam", "low") ELSE st

\* the classifier consulted only for long comments that nothing flagged
ConsultsLLM_mut(st, text) == text.len > 20 /\ st.flags = <<>>

\* the guard of layer 3: len(comment) > 20 or not flags
ConsultsLLM(st, text) == text.len > 20 \/ st.flags = <<>>

\* llm_result.get(key, 0) > self.threshold, when it does not raise
Exceeds(score) == score.t = "num" /\ score.v > threshold

\* Layer 3 raises when llm_result has no .get (JSON that is not an object:
\* AttributeError) or when a score is not a number (TypeError on ">")
LLMLayerRaises(r) ==
    \/ r.type # "object"
    \/ \E s \in {r.toxicity, r.harassment, r.hate_speech, r.inappropriate} :
          s.t = "nonnum"

\* Layer 3: the four threshold tests in source order, then the confidence
LLMLayer(st, r) ==
    LET s1 == IF Exceeds(r.toxicity) THEN AddFlag(st, "toxicity", "high") ELSE st
        s2 == IF Exceeds(r.harassment) THEN AddFlag(s1, "harassment", "critical") ELSE s1
        s3 == IF Exceeds(r.hate_speech) THEN AddFlag(s2, "hate_speech", "critical") ELSE s2
        s4 == IF Exceeds(r.inappropriate) THEN AddFlag(s3, "inappropriate", "medium") ELSE s3
    IN  [s4 EXCEPT !.confidence =
            IF r.confidence.t = "missing" THEN 80 ELSE r.confidence.v]

\* _generate_suggestion without its "if not flags" test
_generate_suggestion_mut(flags, severity) ==
    IF severity = "critical"
         THEN "Immediately hide this comment and review user account"
    ELSE IF severity = "high"
         THEN "Hide comment and notify user about community guidelines"
    ELSE IF severity = "medium"
         THEN "Review comment manually before taking action"
    ELSE IF severity = "low"
         THEN "Monitor user for repeated violations"
    ELSE "Review for potential issues"

\* ModerationService._generate_suggestion ("None" is Python's None)
_generate_suggestion(flags, severity) ==
    IF flags = <<>> THEN "None"
    ELSE IF severity = "critical"
         THEN "Immediately hide this comment and review user account"
    ELSE IF severity = "high"
         THEN "Hide comment and notify user about community guidelines"
    ELSE IF severity = "medium"
         THEN "Review comment manually before taking action"
    ELSE IF severity = "low"
         THEN "Monitor user for repeated violations"
    ELSE "Review for potential issues"

\* the dict returned at lines 109-116; detected_issues is None when empty
Verdict(st) ==
    [ is_appropriate |-> Len(st.flags) = 0,
      confidence |-> st.confidence,
      flags |-> st.flags,
      severity |-> st.severity,
      suggestion |-> _generate_suggestion(st.flags, st.severity),
      detected_issues |-> [none |-> st.detected_issues = {},
                           keys |-> st.detected_issues] ]

\* outcome of a call: it returned a verdict, or it raised
NoVerdict == Verdict(InitLocals)
Returned(v) == [returned |-> TRUE, raised |-> FALSE, verdict |-> v]
Raised == [returned |-> FALSE, raised |-> TRUE, verdict |-> NoVerdict]
NoOutcome == [returned |-> FALSE, raised |-> FALSE, verdict |-> NoVerdict]

\* ModerationService.moderate_comment as one call, given the classifier's reply
moderate_comment(text, reply) ==
    LET st == SpamLayer(ProfanityLayer(InitLocals, text), text)
        r == _llm_analysis(reply)
    IN  IF ~ConsultsLLM(st, text) THEN Returned(Verdict(st))
        ELSE IF LLMLayerRaises(r) THEN Raised
        ELSE Returned(Verdict(LLMLayer(st, r)))

(***************************************************************************)
(* moderate_comment step by step (specification ModSpec)                    *)
(***************************************************************************)
NoReply == Reply("none", <<FALSE, "none">>, FALSE, JsonNonObject)

ModStart(text) ==
    [pc |-> "layer1", st |-> InitLocals, llm_calls |-> 0, reply |-> NoReply,
     llm_result |-> JsonNonObject]

ModIdle == [ModStart(CHOOSE t \in Texts : TRUE) EXCEPT !.pc = "idle"]

ModInit ==
    /\ comment \in Texts
    /\ m = ModStart(comment)
    /\ result = NoOutcome

\* lines 63-68
Layer1Profanity ==
    /\ m.pc = "layer1"
    /\ m' = [m EXCEPT !.pc = "layer2", !.st = ProfanityLayer(@, comment)]
    /\ UNCHANGED <<comment, result, nonModVars>>

\* lines 70-75
Layer2Spam ==
    /\ m.pc = "layer2"
    /\ m' = [m EXCEPT !.pc = "layer3", !.st = SpamLayer(@, comment)]
    /\ UNCHANGED <<comment, result, nonModVars>>

\* lines 77-101, classifier consulted: one await of _llm_analysis
Layer3LLM ==
    /\ m.pc = "layer3"
    /\ ConsultsLLM(m.st, comment)
    /\ \E reply \in Replies :
         LET r == _llm_analysis(reply)
         IN  /\ m' = [m EXCEPT !.pc = IF LLMLayerRaises(r) THEN "raised" ELSE "return",
                               !.st = IF LLMLayerRaises(r) THEN @ ELSE LLMLayer(@, r),
                               !.llm_calls = @ + 1,
                               !.reply = reply,
                               !.llm_result = r]
             /\ result' = IF LLMLayerRaises(r) THEN Raised ELSE result
    /\ UNCHANGED <<comment, nonModVars>>

\* line 78 false: layer 3 is skipped
Layer3Skip ==
    /\ m.pc = "layer3"
    /\ ~ConsultsLLM(m.st, comment)
    /\ m' = [m EXCEPT !.pc = "return"]
    /\ UNCHANGED <<comment, result, nonModVars>>

\* lines 103-116
ModReturn ==
    /\ m.pc = "return"
    /\ m' = [m EXCEPT !.pc = "returned"]
    /\ result' = Returned(Verdict(m.st))
    /\ UNCHANGED <<comment, nonModVars>>

ModNext ==
    \/ Layer1Profanity
    \/ Layer2Spam
    \/ Layer3LLM
    \/ Layer3Skip
    \/ ModReturn

(***************************************************************************)
(* The companion backend and the polling service                            *)
(***************************************************************************)
CommentIds == 1..NumComments
TaskIds == 1..MaxTasks
Callers == {"lifespan", "other"}

\* content of the backend's comments: a short clean text, a short profane
\* text, a long text matching a spam pattern, and so on in turn
TextOf(id) ==
    LET k == id % 3
    IN  IF k = 1 THEN [len |-> 5, upper |-> 0, pats |-> {}, profane |-> FALSE]
        ELSE IF k = 2 THEN [len |-> 5, upper |-> 0, pats |-> {}, profane |-> TRUE]
        ELSE [len |-> 21, upper |-> 0, pats |-> {1}, profane |-> FALSE]

\* records of the "comments" list of a GET reply: well-formed, or lacking
\* the "content" key, or lacking the "id" key
Shapes == {"ok", "no_content", "no_id"}

\* replies of the classifier seen by the polling cycle
CleanJson == [FallbackScores EXCEPT !.confidence = Num(90)]
ToxicJson == [CleanJson EXCEPT !.toxicity = Num(threshold + 1)]
PollReplies ==
    { RaisedReply,
      Reply("text", <<FALSE, "none">>, FALSE, JsonNonObject),
      Reply("text", <<FALSE, "none">>, TRUE, CleanJson),
      Reply("text", <<TRUE, "json">>, TRUE, ToxicJson),
      Reply("text", <<FALSE, "none">>, TRUE, JsonNonObject) }

\* the ids of a sequence of comment records / of posted results
IdsOf(seq) == { seq[i].id : i \in 1..Len(seq) }
FeedbackIds(seq) == { seq[i].feedbackId : i \in 1..Len(seq) }

\* ascending sequence of the elements of a finite set of integers
RECURSIVE SortedSeq(_)
SortedSeq(S) ==
    IF S = {} THEN <<>>
    ELSE LET x == CHOOSE y \in S : \A z \in S : y <= z
         IN  <<x>> \o SortedSeq(S \ {x})

\* the "comments" lists the backend may return for ?limit=n
GetReplies(limit) ==
    UNION { { [i \in 1..Cardinality(S) |->
                 [id |-> SortedSeq(S)[i], shape |-> sh[SortedSeq(S)[i]]]] :
              sh \in [S -> Shapes] } :
            S \in { T \in SUBSET unmoderated : Cardinality(T) <= limit } }

\* the dict appended to results at lines 98-114
ResultEntry(id, v) ==
    [ feedbackId |-> id,
      isAppropriate |-> v.is_appropriate,
      flags |-> v.flags,
      severity |-> v.severity,
      confidence |-> v.confidence,
      aiSuggestion |-> IF v.is_appropriate THEN "approve" ELSE "remove",
      aiReasoning |-> IF v.flags # <<>> THEN "Detected issues" ELSE "None" ]

\* an asyncio task running _poll_loop: where it is suspended and the locals
\* of _process_unmoderated_comments
NoTask ==
    [ pc |-> "none", cancel |-> FALSE, outcome |-> "none", limit |-> 0,
      comments |-> <<>>, idx |-> 0, results |-> <<>>, fail |-> "none", delay |-> 0 ]

\* the task has finished: cancelled, returned, or ended by an exception
Finished(t, how) == [NoTask EXCEPT !.pc = "done", !.outcome = how]

\* comments and results kept on the service across cycles
Sleeping_mut(t, fail) ==
    [t EXCEPT !.pc = "sleep", !.limit = 0, !.idx = 0, !.fail = fail,
              !.delay = poll_interval]

\* line 57: _process_unmoderated_comments has returned (its locals are gone)
\* and the loop awaits asyncio.sleep(self.poll_interval)
Sleeping(t, fail) ==
    [t EXCEPT !.pc = "sleep", !.limit = 0, !.comments = <<>>, !.idx = 0,
              !.results = <<>>, !.fail = fail, !.delay = poll_interval]

\* lines 50-70: the loop test, then the GET with limit = batch_size
LoopTop(t) ==
    IF _running
    THEN [t EXCEPT !.pc = "get", !.limit = batch_size, !.fail = "none", !.delay = 0]
    ELSE Finished(t, "returned")

\* the POST issued without the "if results" test
AfterLoop_mut(t) == [t EXCEPT !.pc = "post"]

\* lines 124-128: after the for loop, POST the results if there are any
AfterLoop(t) ==
    IF t.results # <<>> THEN [t EXCEPT !.pc = "post"] ELSE Sleeping(t, t.fail)

\* lines 88-121: the for loop from its current comment up to the next await.
\* A record without "content" raises KeyError, caught at line 120; a record
\* without "id" raises KeyError again inside that handler, which the outer
\* handler at line 138 catches, ending the cycle.  A text for which layer 3 is
\* skipped is moderated without suspending.
RECURSIVE RunLoop(_)
RunLoop(t) ==
    IF t.idx > Len(t.comments) THEN AfterLoop(t)
    ELSE LET c == t.comments[t.idx]
             st == SpamLayer(ProfanityLayer(InitLocals, TextOf(c.id)), TextOf(c.id))
         IN  IF c.shape = "no_content"
             THEN RunLoop([t EXCEPT !.idx = @ + 1, !.fail = "moderation"])
             ELSE IF c.shape = "no_id" THEN Sleeping(t, "unexpected")
             ELSE IF ConsultsLLM(st, TextOf(c.id)) THEN [t EXCEPT !.pc = "llm"]
             ELSE RunLoop([t EXCEPT !.idx = @ + 1,
                                    !.results = Append(@, ResultEntry(c.id, Verdict(st)))])

\* the caller of start()/stop()
IdleCaller == [pc |-> "idle", last |-> "none", awaiting |-> 0, raised |-> FALSE]

PollInit ==
    /\ _running = FALSE
    /\ _task = 0
    /\ tasks = [t \in TaskIds |-> NoTask]
    /\ unmoderated = CommentIds
    /\ caller = [c \in Callers |-> IdleCaller]

\* start() without its "already running" guard
start_mut(c) ==
    /\ caller[c].pc = "idle"
    /\ \E t \in TaskIds : tasks[t].pc = "none"
    /\ LET t == CHOOSE t \in TaskIds :
                   tasks[t].pc = "none" /\ \A u \in 1..(t-1) : tasks[u].pc # "none"
       IN  /\ _running' = TRUE
           /\ _task' = t
           /\ tasks' = [tasks EXCEPT ![t] = [NoTask EXCEPT !.pc = "created"]]
    /\ caller' = [caller EXCEPT ![c] = [IdleCaller EXCEPT !.last = "start"]]
    /\ UNCHANGED <<unmoderated, nonPollVars>>

\* PollingService.start
start(c) ==
    /\ caller[c].pc = "idle"
    /\ IF _running
       THEN UNCHANGED <<_running, _task, tasks>>
       ELSE /\ \E t \in TaskIds : tasks[t].pc = "none"
            /\ LET t == CHOOSE t \in TaskIds :
                          tasks[t].pc = "none" /\ \A u \in 1..(t-1) : tasks[u].pc # "none"
               IN  /\ _running' = TRUE
                   /\ _task' = t
                   /\ tasks' = [tasks EXCEPT ![t] = [NoTask EXCEPT !.pc = "created"]]
    /\ caller' = [caller EXCEPT ![c] = [IdleCaller EXCEPT !.last = "start"]]
    /\ UNCHANGED <<unmoderated, nonPollVars>>

\* how "await self._task" ends for stop(): CancelledError is swallowed, any
\* other exception of the task reaches the caller
AwaitRaises(t) == t.outcome = "exception"

\* stop() that cancels the task but does not await it
stop_mut(c) ==
    /\ caller[c].pc = "idle"
    /\ _running' = FALSE
    /\ tasks' = IF _task # 0 /\ tasks[_task].pc # "done"
                THEN [tasks EXCEPT ![_task].cancel = TRUE]
                ELSE tasks
    /\ caller' = [caller EXCEPT ![c] =
          [IdleCaller EXCEPT !.last = "stop", !.awaiting = _task]]
    /\ UNCHANGED <<_task, unmoderated, nonPollVars>>

\* PollingService.stop up to its await (to its end when nothing is awaited:
\* no task, or a task that has already finished)
stop(c) ==
    /\ caller[c].pc = "idle"
    /\ _running' = FALSE
    /\ IF _task = 0
       THEN /\ caller' = [caller EXCEPT ![c] = [IdleCaller EXCEPT !.last = "stop"]]
            /\ UNCHANGED tasks
       ELSE IF tasks[_task].pc = "done"
       THEN /\ caller' = [caller EXCEPT ![c] =
                  [IdleCaller EXCEPT !.last = "stop", !.awaiting = _task,
                                     !.raised = AwaitRaises(tasks[_task])]]
            /\ UNCHANGED tasks
       ELSE /\ tasks' = [tasks EXCEPT ![_task].cancel = TRUE]
            /\ caller' = [caller EXCEPT ![c] =
                  [IdleCaller EXCEPT !.pc = "in_stop", !.awaiting = _task]]
    /\ UNCHANGED <<_task, unmoderated, nonPollVars>>

\* PollingService.stop, lines 43-46: the awaited task has finished
stop_return(c) ==
    /\ caller[c].pc = "in_stop"
    /\ tasks[caller[c].awaiting].pc = "done"
    /\ caller' = [caller EXCEPT ![c] =
          [@ EXCEPT !.pc = "idle", !.last = "stop",
                    !.raised = AwaitRaises(tasks[caller[c].awaiting])]]
    /\ UNCHANGED <<_running, _task, tasks, unmoderated, nonPollVars>>

\* CancelledError swallowed by the loop's handlers: a cancelled task goes on
Runnable_mut(t) == tasks[t].pc \notin {"none", "done"}

\* a task can take a step of its own only while no cancellation is pending
Runnable(t) == tasks[t].pc \notin {"none", "done"} /\ ~tasks[t].cancel

\* task.cancel() takes effect: CancelledError is thrown into the coroutine
\* where it is suspended (or before its first step); it is not an Exception,
\* so no handler of the loop catches it and the task ends cancelled
Cancelled(t) ==
    /\ tasks[t].pc \notin {"none", "done"}
    /\ tasks[t].cancel
    /\ tasks' = [tasks EXCEPT ![t] = Finished(tasks[t], "cancelled")]
    /\ UNCHANGED <<_running, _task, unmoderated, caller, nonPollVars>>

\* _poll_loop, first step of the task
TaskBegin(t) ==
    /\ Runnable(t)
    /\ tasks[t].pc = "created"
    /\ tasks' = [tasks EXCEPT ![t] = LoopTop(tasks[t])]
    /\ UNCHANGED <<_running, _task, unmoderated, caller, nonPollVars>>

\* lines 67-84: the GET returns a status other than 200
GetStatusError(t) ==
    /\ Runnable(t)
    /\ tasks[t].pc = "get"
    /\ tasks' = [tasks EXCEPT ![t] = Sleeping(tasks[t], "fetch_status")]
    /\ UNCHANGED <<_running, _task, unmoderated, caller, nonPollVars>>

\* the error of the GET escapes every handler and ends the task
GetRaises_mut(t) ==
    /\ Runnable(t)
    /\ tasks[t].pc = "get"
    /\ tasks' = [tasks EXCEPT ![t] = Finished(tasks[t], "exception")]
    /\ UNCHANGED <<_running, _task, unmoderated, caller, nonPollVars>>

\* lines 136-139: the GET raises httpx.RequestError, or its body is not JSON
GetRaises(t) ==
    /\ Runnable(t)
    /\ tasks[t].pc = "get"
    /\ tasks' = [tasks EXCEPT ![t] = Sleeping(tasks[t], "fetch_error")]
    /\ UNCHANGED <<_running, _task, unmoderated, caller, nonPollVars>>

\* lines 76-121: the GET returns 200 with a list of comments
GetOk(t) ==
    /\ Runnable(t)
    /\ tasks[t].pc = "get"
    /\ \E cs \in GetReplies(tasks[t].limit) :
         tasks' = [tasks EXCEPT ![t] =
            IF cs = <<>> THEN Sleeping(tasks[t], "none")
            ELSE RunLoop([tasks[t] EXCEPT !.comments = cs, !.idx = 1, !.results = <<>>])]
    /\ UNCHANGED <<_running, _task, unmoderated, caller, nonPollVars>>

\* lines 90-121 for one reply of the classifier: moderate_comment ends, its
\* verdict is appended to results (or its exception is caught at line 120),
\* and the for loop goes on to the next await
LLMReply(t, reply) ==
    /\ Runnable(t)
    /\ tasks[t].pc = "llm"
    /\ \E c \in {tasks[t].comments[tasks[t].idx]} :
         \E out \in {moderate_comment(TextOf(c.id), reply)} :
           tasks' = [tasks EXCEPT ![t] =
              IF out.raised
              THEN RunLoop([tasks[t] EXCEPT !.idx = @ + 1, !.fail = "moderation"])
              ELSE RunLoop([tasks[t] EXCEPT !.idx = @ + 1,
                      !.results = Append(@, ResultEntry(c.id, out.verdict))])]
    /\ UNCHANGED <<_running, _task, unmoderated, caller, nonPollVars>>

\* the POST moved inside the for loop: it follows the first verdict
LLMDone_mut(t) ==
    /\ Runnable(t)
    /\ tasks[t].pc = "llm"
    /\ \E reply \in PollReplies :
         \E c \in {tasks[t].comments[tasks[t].idx]} :
           \E out \in {moderate_comment(TextOf(c.id), reply)} :
             tasks' = [tasks EXCEPT ![t] =
                IF out.raised
                THEN RunLoop([tasks[t] EXCEPT !.idx = @ + 1, !.fail = "moderation"])
                ELSE [tasks[t] EXCEPT !.pc = "post",
                        !.results = Append(@, ResultEntry(c.id, out.verdict))]]
    /\ UNCHANGED <<_running, _task, unmoderated, caller, nonPollVars>>

\* lines 90-121: the classifier has answered for the current comment
LLMDone(t) == \E reply \in PollReplies : LLMReply(t, reply)

\* lines 130-132: the POST returns 200; the backend has recorded the verdicts
\* it accepted ("updated") and left the others unmoderated ("failed")
PostOk(t) ==
    /\ Runnable(t)
    /\ tasks[t].pc = "post"
    /\ \E updated \in SUBSET FeedbackIds(tasks[t].results) :
         unmoderated' = unmoderated \ updated
    /\ tasks' = [tasks EXCEPT ![t] = Sleeping(tasks[t], tasks[t].fail)]
    /\ UNCHANGED <<_running, _task, caller, nonPollVars>>

\* a failed POST stops the service: the task clears the running flag
PostFails_mut(t) ==
    /\ Runnable(t)
    /\ tasks[t].pc = "post"
    /\ \E why \in {"post_status", "post_error"} :
         tasks' = [tasks EXCEPT ![t] = Sleeping(tasks[t], why)]
    /\ _running' = FALSE
    /\ UNCHANGED <<_task, unmoderated, caller, nonPollVars>>

\* lines 133-139: the POST returns another status, or raises
PostFails(t) ==
    /\ Runnable(t)
    /\ tasks[t].pc = "post"
    /\ \E why \in {"post_status", "post_error"} :
         tasks' = [tasks EXCEPT ![t] = Sleeping(tasks[t], why)]
    /\ UNCHANGED <<_running, _task, unmoderated, caller, nonPollVars>>

\* line 57 then line 50: the sleep is over, the loop tests self._running
SleepDone(t) ==
    /\ Runnable(t)
    /\ tasks[t].pc = "sleep"
    /\ tasks' = [tasks EXCEPT ![t] = LoopTop(tasks[t])]
    /\ UNCHANGED <<_running, _task, unmoderated, caller, nonPollVars>>

TaskStep(t) ==
    \/ TaskBegin(t)
    \/ GetStatusError(t)
    \/ GetRaises(t)
    \/ GetOk(t)
    \/ LLMDone(t)
    \/ PostOk(t)
    \/ PostFails(t)
    \/ SleepDone(t)
    \/ Cancelled(t)

\* main.lifespan is the only caller: start() at startup, stop() at shutdown,
\* one call at a time
PollNext ==
    \/ start("lifespan")
    \/ stop("lifespan")
    \/ stop_return("lifespan")
    \/ \E t \in TaskIds : TaskStep(t)

(***************************************************************************)
(* RecommendationsService.get_personalized_recommendations                  *)
(* (services/recommendations_service.py).  An event is its "id"; the        *)
(* available events are the events 1..n.  A recommendation of the remote    *)
(* model is its "event_id" and its "score".                                 *)
(***************************************************************************)
rec_batch_size == 20     \* batch_size = 20 inside the method

\* the lengths of available_events: none, a few, exactly one batch, more
EventCounts == { 0, 1, 2, rec_batch_size, MaxEvents }
AvailableEvents(n) == [i \in 1..n |-> i]
\* registration_history["event_ids"] as a set
RegisteredSets == { {}, {1} }
\* RecommendationRequest.limit is any int (no ge/le on the field)
Limits == { -1, 1, 5 }

\* what the remote model may put in "recommendations"
RecIds == { 1, 2 }
RecScores == { Missing, Num(30), Num(90) }
RecItems == [ event_id : RecIds, score : RecScores ]
RecLists(maxlen) == UNION { [1..k -> RecItems] : k \in 0..maxlen }

\* the JSON value of a reply: not an object, an object without the key
\* "recommendations", an object whose "recommendations" is null, or an
\* object whose "recommendations" is a list of items
RecJson(type, items) == [type |-> type, items |-> items]
RecJsonValues(maxlen) ==
    { RecJson("nonobject", <<>>), RecJson("nokey", <<>>), RecJson("null", <<>>) }
        \cup { RecJson("list", l) : l \in RecLists(maxlen) }
\* the replies to one batch, with at most maxlen recommendations
RecReplies(maxlen) ==
    { Reply("raise", <<FALSE, "none">>, FALSE, RecJson("nonobject", <<>>)) }
        \cup { Reply("text", w, FALSE, RecJson("nonobject", <<>>)) : w \in Wrappings }
        \cup { Reply("text", w, TRUE, j) : w \in Wrappings, j \in RecJsonValues(maxlen) }

\* a Python value returned by _get_batch_recommendations (or its raising)
PyList(items) == [kind |-> "list", items |-> items]
PyNone == [kind |-> "none", items |-> <<>>]
PyRaise == [kind |-> "raise", items |-> <<>>]

\* _get_batch_recommendations whose except branch re-raises
_get_batch_recommendations_mut(reply) ==
    IF reply.kind = "raise" THEN PyRaise
    ELSE IF ~ParsesAsJson(reply) THEN PyRaise
    ELSE IF reply.json.type = "nonobject" THEN PyRaise
    ELSE IF reply.json.type = "nokey" THEN PyList(<<>>)
    ELSE IF reply.json.type = "null" THEN PyNone
    ELSE PyList(reply.json.items)

\* RecommendationsService._get_batch_recommendations: the remote call, the
\* fence handling, json.loads and result.get("recommendations", []) are in
\* one try whose except branch returns []
_get_batch_recommendations(reply) ==
    IF reply.kind = "raise" THEN PyList(<<>>)
    ELSE IF ~ParsesAsJson(reply) THEN PyList(<<>>)
    ELSE IF reply.json.type = "nonobject" THEN PyList(<<>>)
    ELSE IF reply.json.type = "nokey" THEN PyList(<<>>)
    ELSE IF reply.json.type = "null" THEN PyNone
    ELSE PyList(reply.json.items)

\* the filter without its condition
FilterRegistered_mut(available_events, registered_ids, exclude_registered) ==
    available_events

\* candidate_events: available_events, without the registered ones if asked
FilterRegistered(available_events, registered_ids, exclude_registered) ==
    IF exclude_registered
    THEN SelectSeq(available_events, LAMBDA e : e \notin registered_ids)
    ELSE available_events

\* key=lambda x: x.get("score", 0)
SortKey(x) == IF x.score.t = "missing" THEN 0 ELSE x.score.v

\* list.sort(key=..., reverse=True): descending and stable, so an item goes
\* behind every item whose key is at least its own
RECURSIVE InsertByScore(_, _)
InsertByScore(sorted, x) ==
    IF sorted = <<>> THEN <<x>>
    ELSE IF SortKey(Head(sorted)) >= SortKey(x)
         THEN <<Head(sorted)>> \o InsertByScore(Tail(sorted), x)
         ELSE <<x>> \o sorted

RECURSIVE SortByScore(_)
SortByScore(l) ==
    IF l = <<>> THEN <<>>
    ELSE InsertByScore(SortByScore(SubSeq(l, 1, Len(l) - 1)), l[Len(l)])

\* l[:limit]: the first limit items; a negative limit counts from the end
TakeLimit(l, limit) ==
    IF limit >= Len(l) THEN l
    ELSE IF limit >= 0 THEN SubSeq(l, 1, limit)
    ELSE SubSeq(l, 1, Max(Len(l) + limit, 0))

\* rec.get("score", 50)
OutputScore(x) == IF x.score.t = "missing" THEN Num(50) ELSE x.score

\* the enrichment loop without its "if event_data" test
Enrich_mut(top, candidate_events) ==
    [i \in 1..Len(top) |->
        [id |-> top[i].event_id, recommendation_score |-> OutputScore(top[i])]]

\* the enrichment loop: a recommendation whose event_id is the id of a
\* candidate event becomes that event with its recommendation_score
Enrich(top, candidate_events) ==
    LET known == SelectSeq(top, LAMBDA x : x.event_id \in Range(candidate_events))
    IN  [i \in 1..Len(known) |->
            [id |-> known[i].event_id, recommendation_score |-> OutputScore(known[i])]]

RecCall(n, registered_ids, limit, exclude_registered) ==
    [pc |-> "start",
     available_events |-> AvailableEvents(n),
     registered_ids |-> registered_ids,
     limit |-> limit,
     exclude_registered |-> exclude_registered,
     candidate_events |-> <<>>,
     batch_start |-> 0,
     all_recommendations |-> <<>>,
     batches |-> <<>>]      \* per batch submitted: its start, reply class, items

RecIdle == [RecCall(0, {}, 5, TRUE) EXCEPT !.pc = "idle"]
RecNoOutcome == [status |-> "none", recommendations |-> <<>>, reasoning |-> "none"]
RecReturned(recs, reasoning) ==
    [status |-> "returned", recommendations |-> recs, reasoning |-> reasoning]
RecRaised == [status |-> "raised", recommendations |-> <<>>, reasoning |-> "none"]

RecIdleInit == rec = RecIdle /\ rec_out = RecNoOutcome

RecInit ==
    /\ rec \in { RecCall(n, r, l, x) : n \in EventCounts, r \in RegisteredSets,
                                       l \in Limits, x \in BOOLEAN }
    /\ rec_out = RecNoOutcome

\* lines 36-73: the two early returns, the filter, the start of the loop
RecStart ==
    /\ rec.pc = "start"
    /\ IF rec.available_events = <<>>
       THEN /\ rec' = [rec EXCEPT !.pc = "done"]
            /\ rec_out' = RecReturned(<<>>, "No events available")
       ELSE \E c \in { FilterRegistered(rec.available_events, rec.registered_ids,
                                        rec.exclude_registered) } :
              IF c = <<>>
              THEN /\ rec' = [rec EXCEPT !.pc = "done", !.candidate_events = c]
                   /\ rec_out' = RecReturned(<<>>, "No new events available")
              ELSE /\ rec' = [rec EXCEPT !.pc = "loop", !.candidate_events = c]
                   /\ UNCHANGED rec_out
    /\ UNCHANGED nonRecVars

\* the reply of the remote model failed: the call raised, or the content did
\* not parse, or it parsed to something that is not an object
BatchFailed(reply) ==
    \/ reply.kind = "raise"
    \/ ~ParsesAsJson(reply)
    \/ reply.json.type = "nonobject"

\* one turn of the loop: the batch is submitted, the remote model replies,
\* and the list returned is appended to all_recommendations
RecBatch ==
    /\ rec.pc = "loop"
    /\ rec.batch_start < Len(rec.candidate_events)
    /\ \E reply \in RecReplies(MaxItems - Len(rec.all_recommendations)) :
         \E got \in { _get_batch_recommendations(reply) } :
           \E entry \in { [start |-> rec.batch_start, failed |-> BatchFailed(reply),
                           items |-> IF BatchFailed(reply) THEN <<>>
                                     ELSE reply.json.items] } :
             IF got.kind = "list"
             THEN /\ rec' = [rec EXCEPT
                        !.all_recommendations = @ \o got.items,
                        !.batch_start = @ + rec_batch_size,
                        !.batches = Append(@, entry)]
                  /\ UNCHANGED rec_out
             ELSE /\ rec' = [rec EXCEPT !.pc = "done", !.batches = Append(@, entry)]
                  /\ rec_out' = RecRaised
    /\ UNCHANGED nonRecVars

\* after the loop: sort, truncate, enrich, return
RecReturn ==
    /\ rec.pc = "loop"
    /\ rec.batch_start >= Len(rec.candidate_events)
    /\ \E sorted \in { SortByScore(rec.all_recommendations) } :
         /\ rec' = [rec EXCEPT !.pc = "done", !.all_recommendations = sorted]
         /\ rec_out' = RecReturned(Enrich(TakeLimit(sorted, rec.limit),
                                          rec.candidate_events), "Analyzed")
    /\ UNCHANGED nonRecVars

RecNext ==
    \/ RecStart
    \/ RecBatch
    \/ RecReturn

(***************************************************************************)
(* The HTTP endpoints (routers/*.py) and the service operations they call.  *)
(* A request is its path and what decides the handler's course: the size of *)
(* the list the operation works on, and whether it carries a null in a      *)
(* field that the operation reads before its try ("prompt") or in its       *)
(* except branch ("default").                                               *)
(***************************************************************************)
DescriptionPaths ==
    { "/description/generate", "/description/improve", "/description/agenda",
      "/description/suggestions" }
ModerationPaths ==
    { "/moderate/comment", "/moderate/batch", "/moderate/analyze",
      "/moderate/stats", "/moderate/report" }
RecommendationPaths ==
    { "/recommendations/personalized", "/recommendations/similar",
      "/recommendations/trending", "/recommendations/explain",
      "/recommendations/popular-by-faculty" }
AnalyticsPaths ==
    { "/analytics/event-insights", "/analytics/dashboard-insights",
      "/analytics/feedback-analysis", "/analytics/compare-events",
      "/analytics/generate-report", "/analytics/quick-stats" }
ChatbotPaths ==
    { "/chatbot/ask", "/chatbot/generate-faq", "/chatbot/quick-answer",
      "/chatbot/suggest-questions", "/chatbot/summarize-event",
      "/chatbot/common-questions" }
AssistantPaths == { "/assistant/chat", "/assistant/suggestions" }
HealthPaths == { "/health", "/" }
Endpoints ==
    DescriptionPaths \cup ModerationPaths \cup RecommendationPaths
        \cup AnalyticsPaths \cup ChatbotPaths \cup AssistantPaths \cup HealthPaths

\* the service operation a handler awaits
OpOf(path) ==
    CASE path = "/description/generate" -> "generate_description"
      [] path = "/description/improve" -> "improve_description"
      [] path = "/description/agenda" -> "generate_agenda"
      [] path = "/description/suggestions" -> "get_suggestions"
      [] path = "/moderate/comment" -> "moderate_comment"
      [] path = "/moderate/batch" -> "moderate_batch"
      [] path = "/moderate/analyze" -> "analyze_content"
      [] path = "/moderate/stats" -> "get_stats"
      [] path = "/moderate/report" -> "report_comment"
      [] path = "/recommendations/personalized" -> "get_personalized_recommendations"
      [] path = "/recommendations/similar" -> "get_similar_events"
      [] path = "/recommendations/trending" -> "analyze_trending"
      [] path = "/recommendations/explain" -> "explain_recommendation"
      [] path = "/recommendations/popular-by-faculty" -> "get_popular_by_faculty"
      [] path = "/analytics/event-insights" -> "generate_event_insights"
      [] path = "/analytics/dashboard-insights" -> "generate_dashboard_insights"
      [] path = "/analytics/feedback-analysis" -> "analyze_feedback"
      [] path = "/analytics/compare-events" -> "compare_events"
      [] path = "/analytics/generate-report" -> "generate_report"
      [] path = "/analytics/quick-stats" -> "get_quick_stats"
      [] path = "/chatbot/ask" -> "answer_question"
      [] path = "/chatbot/generate-faq" -> "generate_faq"
      [] path = "/chatbot/quick-answer" -> "get_quick_answer"
      [] path = "/chatbot/suggest-questions" -> "suggest_questions"
      [] path = "/chatbot/summarize-event" -> "summarize_event"
      [] path = "/chatbot/common-questions" -> "get_common_questions"
      [] path = "/assistant/chat" -> "chat_with_assistant"
      [] path = "/assistant/suggestions" -> "assistant_suggestions"
      [] path = "/health" -> "health_check"
      [] OTHER -> "root"

\* the handlers that call require_openai_key() before their try
Guarded(path) == path = "/moderate/comment"

\* a handler that turns every exception into a 500, chat included
OnError_mut(path) ==
    IF path \in AssistantPaths \cup HealthPaths
    THEN IF path = "/assistant/chat" THEN "http500" ELSE "none"
    ELSE "http500"

\* what a handler does with an exception of its try block: HTTPException(500,
\* str(e)); or, in chat_with_assistant, a canned AssistantResponse; the
\* handlers of /assistant/suggestions, /health and / have no try
OnError(path) ==
    IF path \in AssistantPaths \cup HealthPaths
    THEN IF path = "/assistant/chat" THEN "canned" ELSE "none"
    ELSE "http500"

\* how often an operation awaits the remote model (llm.ainvoke)
OnceOps ==
    { "generate_description", "improve_description", "generate_agenda",
      "analyze_content", "get_similar_events", "explain_recommendation",
      "generate_event_insights", "generate_dashboard_insights",
      "answer_question", "generate_faq", "summarize_event" }
\* moderate_comment consults it for some texts only, analyze_feedback when
\* there are comments and the depth asks for it
AtMostOnceOps == { "moderate_comment", "analyze_feedback" }
\* once per comment that needs it, once per batch of candidates
PerUnitOps == { "moderate_batch", "get_personalized_recommendations" }

\* the numbers of remote calls the operation may need on a list of n units
NeededCalls(op, n) ==
    IF op \in OnceOps THEN {1}
    ELSE IF op \in AtMostOnceOps THEN {0, 1}
    ELSE IF op \in PerUnitOps THEN {n}
    ELSE IF op = "chat_with_assistant"
         \* the batches of the recommender, then generate_ai_response unless
         \* recommendations were found
         THEN {n + 1} \cup (IF n >= 1 THEN {n} ELSE {})
    ELSE {0}

\* no operation returns early
HasEarlyReturn_mut(op) == FALSE

\* the operations that return at once, before any remote call, on an empty
\* list (events, candidates, feedback)
HasEarlyReturn(op) ==
    op \in { "generate_dashboard_insights", "get_similar_events",
             "get_personalized_recommendations", "analyze_feedback" }

\* every except branch substitutes a default
OnFailure_mut(op) == "fallback"

\* the except branch around the remote call: it raises again, or it
\* substitutes a hardcoded default
OnFailure(op) ==
    IF op \in { "get_similar_events", "generate_description",
                "improve_description", "generate_agenda" }
    THEN "raise"
    ELSE "fallback"

\* code before the try that raises on a null: ', '.join(None) in
\* _build_system_prompt, capacity > 0 in _calculate_metrics,
\* event_data.get('description', '')[:200] in explain_recommendation
RaisesBeforeCall(op) ==
    op \in { "answer_question", "generate_event_insights", "explain_recommendation" }

\* an except branch that raises on a null: event_data.get('type', 'event').lower()
FallbackRaises(op) == op = "explain_recommendation"

\* a reply that parses can still make the code after the try raise
\* (result.get on a JSON list, extend(None), FAQResponse(faqs=...))
RaisesAfterCall(op) ==
    op \in { "moderate_comment", "moderate_batch", "analyze_content",
             "get_personalized_recommendations", "generate_event_insights",
             "generate_faq", "analyze_feedback", "chat_with_assistant" }

\* what the model keeps of a response body: how it was made and, for the
\* dashboard insights, its fields
Body(kind, overview, top, areas, actions) ==
    [kind |-> kind, overview |-> overview, top_performers |-> top,
     areas_for_improvement |-> areas, action_items |-> actions]
NoBody == Body("none", "", <<>>, <<>>, <<>>)
\* sorted_by_registrations[:3]
TopPerformers(n) == [i \in 1..(IF n < 3 THEN n ELSE 3) |-> i]

\* the value the operation returns: early (empty input), result (made from
\* the replies), fallback (made by an except branch)
ReturnValue(op, kind, n) ==
    IF op = "generate_dashboard_insights"
    THEN IF kind = "early"
         THEN Body(kind, "No events data available for analysis.", <<>>, <<>>, <<>>)
         ELSE IF kind = "fallback"
         THEN Body(kind, "Platform has n events", TopPerformers(n), <<>>, <<>>)
         ELSE Body(kind, "overview of the reply", TopPerformers(n),
                   <<"of the reply">>, <<"of the reply">>)
    ELSE Body(kind, "", <<>>, <<>>, <<>>)

Requests == [ path : Endpoints, units : 0..MaxUnits, null_in : {"none", "prompt", "default"} ]

NoResponse == [status |-> 0, detail |-> "none", body |-> NoBody]
\* require_openai_key: HTTPException(503, {..., "code": "OPENAI_KEY_NOT_CONFIGURED"})
KeyNotConfigured ==
    [status |-> 503, detail |-> "OPENAI_KEY_NOT_CONFIGURED", body |-> NoBody]
Ok200(body) == [status |-> 200, detail |-> "none", body |-> body]
\* HTTPException(status_code=500, detail=str(e))
Http500(exc) == [status |-> 500, detail |-> exc, body |-> NoBody]
\* the AssistantResponse of chat_with_assistant's except branch
Canned200 == Ok200(Body("canned", "", <<>>, <<>>, <<>>))

HandlerStart ==
    [pc |-> "guard", ran |-> FALSE, needed |-> 0, llm_calls |-> 0, failures |-> 0,
     outcome |-> "none", exc |-> "none"]
HandlerIdle == [HandlerStart EXCEPT !.pc = "idle"]

ApiIdleInit ==
    /\ key_set = TRUE
    /\ req = [path |-> "/health", units |-> 0, null_in |-> "none"]
    /\ h = HandlerIdle
    /\ response = NoResponse

ApiInit ==
    /\ key_set \in BOOLEAN
    /\ req \in Requests
    /\ h = HandlerStart
    /\ response = NoResponse

\* the statements of the handler before its try
Guard ==
    /\ h.pc = "guard"
    /\ IF Guarded(req.path) /\ ~key_set
       THEN /\ h' = [h EXCEPT !.pc = "done"]
            /\ response' = KeyNotConfigured
       ELSE /\ h' = [h EXCEPT !.pc = "service"]
            /\ UNCHANGED response
    /\ UNCHANGED <<key_set, req, nonApiVars>>

\* the operation up to its first remote call
ServiceStart ==
    /\ h.pc = "service"
    /\ \E op \in { OpOf(req.path) } :
         IF RaisesBeforeCall(op) /\ req.null_in = "prompt"
         THEN h' = [h EXCEPT !.pc = "finish", !.ran = TRUE,
                             !.outcome = "raised", !.exc = "TypeError"]
         ELSE IF HasEarlyReturn(op) /\ req.units = 0
         THEN h' = [h EXCEPT !.pc = "finish", !.ran = TRUE, !.outcome = "early"]
         ELSE \E k \in NeededCalls(op, req.units) :
                IF k = 0
                THEN h' = [h EXCEPT !.pc = "finish", !.ran = TRUE, !.outcome = "result"]
                ELSE h' = [h EXCEPT !.pc = "llm", !.ran = TRUE, !.needed = k]
    /\ UNCHANGED <<key_set, req, response, nonApiVars>>

\* what a remote call can do: reply well, fail (raise, or reply what the
\* operation's try does not parse), or reply what parses and breaks the code
\* after the try; without a key the call cannot authenticate
RemoteOutcomes(op) ==
    IF ~key_set THEN {"fail"}
    ELSE {"ok", "fail"} \cup (IF RaisesAfterCall(op) THEN {"bad"} ELSE {})

\* one remote call and what the operation does with its reply
RemoteCall ==
    /\ h.pc = "llm"
    /\ h.llm_calls < h.needed
    /\ \E op \in { OpOf(req.path) } :
       \E o \in RemoteOutcomes(op) :
       \E last \in { h.llm_calls + 1 = h.needed } :
         IF o = "bad"
         THEN h' = [h EXCEPT !.pc = "finish", !.llm_calls = @ + 1,
                             !.outcome = "raised", !.exc = "TypeError"]
         ELSE IF o = "fail" /\ OnFailure(op) = "raise"
         THEN h' = [h EXCEPT !.pc = "finish", !.llm_calls = @ + 1, !.failures = @ + 1,
                             !.outcome = "raised", !.exc = "failed: remote"]
         ELSE IF o = "fail" /\ FallbackRaises(op) /\ req.null_in = "default"
         THEN h' = [h EXCEPT !.pc = "finish", !.llm_calls = @ + 1, !.failures = @ + 1,
                             !.outcome = "raised", !.exc = "AttributeError"]
         ELSE \E f \in { h.failures + (IF o = "fail" THEN 1 ELSE 0) } :
                h' = [h EXCEPT !.llm_calls = @ + 1, !.failures = f,
                               !.pc = IF last THEN "finish" ELSE "llm",
                               !.outcome = IF ~last THEN "none"
                                           ELSE IF f > 0 THEN "fallback" ELSE "result"]
    /\ UNCHANGED <<key_set, req, response, nonApiVars>>

\* the end of the handler: it returns what the operation returned, or its
\* except branch answers for the exception
Finish ==
    /\ h.pc = "finish"
    /\ h' = [h EXCEPT !.pc = "done"]
    /\ response' =
         IF h.outcome = "raised"
         THEN IF OnError(req.path) = "canned" THEN Canned200
              ELSE Http500(h.exc)
         ELSE Ok200(ReturnValue(OpOf(req.path), h.outcome, req.units))
    /\ UNCHANGED <<key_set, req, nonApiVars>>

ApiNext ==
    \/ Guard
    \/ ServiceStart
    \/ RemoteCall
    \/ Finish

(***************************************************************************)
(* Specifications                                                           *)
(***************************************************************************)
Init ==
    /\ PollInit
    /\ comment = CHOOSE t \in Texts : TRUE
    /\ m = ModIdle
    /\ result = NoOutcome
    /\ RecIdleInit
    /\ ApiIdleInit

Next == PollNext

\* the polling service driven by its caller, the backend and the classifier
Spec == Init /\ [][Next]_vars

ModSpecInit == ModInit /\ PollInit /\ RecIdleInit /\ ApiIdleInit

ModSpecNext == ModNext

\* one call of moderate_comment on any text with any classifier reply
ModSpec == ModSpecInit /\ [][ModSpecNext]_vars

RecSpecInit ==
    /\ RecInit
    /\ PollInit
    /\ comment = CHOOSE t \in Texts : TRUE
    /\ m = ModIdle
    /\ result = NoOutcome
    /\ ApiIdleInit

RecSpecNext == RecNext

\* one call of get_personalized_recommendations on any request, with any
\* reply of the remote model to each batch
RecSpec == RecSpecInit /\ [][RecSpecNext]_vars

ApiSpecInit ==
    /\ ApiInit
    /\ PollInit
    /\ comment = CHOOSE t \in Texts : TRUE
    /\ m = ModIdle
    /\ result = NoOutcome
    /\ RecIdleInit

ApiSpecNext == ApiNext

\* one HTTP request to any endpoint, with or without the key, with any
\* outcome of each remote call
ApiSpec == ApiSpecInit /\ [][ApiSpecNext]_vars

\* the event loop runs every ready task, and every awaited call (GET and POST
\* under the client's 30 s timeout, the classifier call, the sleep) ends
LiveSpec == Spec /\ \A t \in TaskIds : WF_vars(TaskStep(t))

\* polling_service is a module-level singleton: any coroutine of the event
\* loop can call start() and stop() on it.  Neither awaits before its last
\* statement but stop(), at "await self._task"; so the calls of two
\* coroutines interleave there and with the steps of the polling tasks.
ConcNext ==
    \/ \E c \in Callers : start(c)
    \/ \E c \in Callers : stop(c)
    \/ \E c \in Callers : stop_return(c)
    \/ \E t \in TaskIds : TaskStep(t)

\* the backend holds two unmoderated comments when the service is built
ConcInit ==
    /\ _running = FALSE
    /\ _task = 0
    /\ tasks = [t \in TaskIds |-> NoTask]
    /\ unmoderated = { c \in CommentIds : c <= 2 }
    /\ caller = [c \in Callers |-> IdleCaller]
    /\ comment = CHOOSE t \in Texts : TRUE
    /\ m = ModIdle
    /\ result = NoOutcome
    /\ RecIdleInit
    /\ ApiIdleInit

ConcSpec == ConcInit /\ [][ConcNext]_vars

(***************************************************************************)
(* Properties of the polling service                                        *)
(***************************************************************************)
Unfinished(t) == tasks[t].pc \notin {"none", "done"}
UnfinishedTasks == { t \in TaskIds : Unfinished(t) }
CreatedTasks == { t \in TaskIds : tasks[t].pc # "none" }
NoCallInProgress == \A c \in Callers : caller[c].pc = "idle"

C1_StartEffect ==
    start("lifespan") =>
        IF _running
        THEN _running' /\ _task' = _task /\ tasks' = tasks
        ELSE /\ _running'
             /\ Cardinality(CreatedTasks') = Cardinality(CreatedTasks) + 1
             /\ _task' \in CreatedTasks' \ CreatedTasks
             /\ \A t \in CreatedTasks : tasks'[t] = tasks[t]
C1_Quiescent ==
    NoCallInProgress =>
        /\ Cardinality(UnfinishedTasks) <= 1
        /\ _running <=> UnfinishedTasks # {}
        /\ UnfinishedTasks \subseteq {_task}

\* C1: start() while stopped sets the running flag and creates exactly one
\* polling task, start() while running changes nothing; whenever no call is in
\* progress there is at most one unfinished polling task, it is the one the
\* service references, and there is one exactly when the running flag is true.
C1_OneTaskIffRunning == [][C1_StartEffect]_vars /\ []C1_Quiescent

\* C1 witness: the service was started, stopped and started again; the first
\* task has finished and the second is in the middle of a cycle
C1_Witness ==
    /\ NoCallInProgress
    /\ caller["lifespan"].last = "start"
    /\ _running
    /\ _task = 2
    /\ tasks[1].pc = "done"
    /\ tasks[2].pc = "llm"

StopHasReturned == caller["lifespan"].pc = "idle" /\ caller["lifespan"].last = "stop"
IssuesRequest(t) ==
    /\ tasks'[t].pc \in {"get", "post"}
    /\ tasks'[t].pc # tasks[t].pc
C2_AtReturn ==
    StopHasReturned =>
        /\ ~_running
        /\ ~caller["lifespan"].raised
        /\ \A t \in TaskIds : ~Unfinished(t)
        /\ _task # 0 => tasks[_task].pc = "done"
C2_Silent == StopHasReturned => \A t \in TaskIds : ~IssuesRequest(t)

\* C2: whenever stop() has returned, the running flag is false, every polling
\* task has finished, nothing was raised to the caller, and no GET or POST is
\* issued until start() is called again.
C2_StopStopsPolling == []C2_AtReturn /\ [][C2_Silent]_vars

\* C2 witness: stop() has returned after cancelling a task that was running
C2_Witness ==
    /\ StopHasReturned
    /\ caller["lifespan"].awaiting # 0
    /\ tasks[caller["lifespan"].awaiting].outcome = "cancelled"
    /\ unmoderated # CommentIds

C3_Step(t) ==
    LET a == tasks[t].pc
        b == tasks'[t].pc
    IN  /\ (b = "get" /\ a # "get") =>
              a \in {"created", "sleep"} /\ _running /\ tasks'[t].limit = batch_size
        /\ (b = "llm") => a \in {"get", "llm"}
        /\ (b = "post" /\ a # "post") =>
              /\ a \in {"get", "llm"}
              /\ tasks'[t].idx = Len(tasks'[t].comments) + 1
              /\ Len(tasks'[t].comments) <= batch_size
              /\ FeedbackIds(tasks'[t].results) \subseteq IdsOf(tasks'[t].comments)
              /\ tasks'[t].fail = "none" =>
                    FeedbackIds(tasks'[t].results) = IdsOf(tasks'[t].comments)
        /\ (b = "sleep" /\ a # "sleep") =>
              a \in {"get", "llm", "post"} /\ tasks'[t].delay = poll_interval
        /\ (a = "post") => b \in {"post", "sleep", "done"}
        /\ (a = "sleep") => b \in {"sleep", "get", "done"}

\* C3: a cycle goes fetch, moderate, post, sleep: a GET (limit = batch size)
\* is issued only at the start of the task or after a sleep, and only while
\* the running flag is true; moderation follows the GET; the POST is issued
\* only once the loop has passed every fetched comment, with a verdict for
\* each of them unless a moderation raised; the sleep of the fixed interval
\* follows; after the POST comes only the sleep.
C3_CycleOrder == [][\A t \in TaskIds : C3_Step(t)]_vars

\* C3 witness: in a later cycle (an earlier one has posted), both fetched
\* comments have been moderated and the POST is in flight
C3_Witness ==
    \E t \in TaskIds :
        /\ tasks[t].pc = "post"
        /\ Len(tasks[t].comments) = 2
        /\ Len(tasks[t].results) = 2
        /\ unmoderated # CommentIds

C4_NeverEnds(t) ==
    (Unfinished(t) /\ ~tasks[t].cancel) => Unfinished(t)'
C4_SameSleep(t) ==
    tasks[t].pc = "sleep" => tasks[t].delay = poll_interval
C4_NextCycle(t) ==
    (tasks[t].pc = "sleep" /\ tasks[t].fail # "none") ~> (tasks[t].pc = "get" \/ ~_running)

\* C4: a failed cycle never ends the loop: a task that is not cancelled never
\* finishes, after a failure it sleeps the same fixed interval, and from that
\* sleep it starts another cycle unless the service is stopped.
C4_FailedCycleGoesOn ==
    /\ [][\A t \in TaskIds : C4_NeverEnds(t)]_vars
    /\ [](\A t \in TaskIds : C4_SameSleep(t))
    /\ \A t \in TaskIds : C4_NextCycle(t)

\* C4 witness: the POST of a cycle has failed and the task sleeps
C4_Witness ==
    \E t \in TaskIds :
        /\ tasks[t].pc = "sleep"
        /\ tasks[t].fail = "post_error"
        /\ tasks[t].delay = poll_interval

C5_NoCarry(t) ==
    /\ tasks[t].pc \notin {"llm", "post"} =>
          tasks[t].comments = <<>> /\ tasks[t].results = <<>>
    /\ FeedbackIds(tasks[t].results) \subseteq IdsOf(tasks[t].comments)
C5_Refetchable ==
    \A c \in unmoderated : \E cs \in GetReplies(batch_size) : c \in IdsOf(cs)
C5_BackendStep ==
    unmoderated' # unmoderated =>
        \E t \in TaskIds :
            /\ tasks[t].pc = "post"
            /\ unmoderated' \subseteq unmoderated
            /\ (unmoderated \ unmoderated') \subseteq FeedbackIds(tasks[t].results)

MaxOf(S) == CHOOSE x \in S : \A y \in S : x >= y

\* the order none < low < medium < high < critical
SeverityRank(s) ==
    CASE s = "none" -> 0
      [] s = "low" -> 1
      [] s = "medium" -> 2
      [] s = "high" -> 3
      [] s = "critical" -> 4

\* the fixed table of per-flag severities
FlagSeverity(f) ==
    CASE f = "profanity" -> "medium"
      [] f = "spam" -> "low"
      [] f = "toxicity" -> "high"
      [] f = "harassment" -> "critical"
      [] f = "hate_speech" -> "critical"
      [] f = "inappropriate" -> "medium"

\* the text matches a spam pattern or the excessive-capitals rule
TextIsSpam(text) ==
    text.pats # {} \/ (text.len > 10 /\ 2 * text.upper > text.len)

\* the flags the two local checks give a text
LocalFlagsOf(text) ==
    (IF text.profane THEN <<"profanity">> ELSE <<>>)
        \o (IF TextIsSpam(text) THEN <<"spam">> ELSE <<>>)

\* the classifier failed: the call raised, or its text is not JSON
ReplyFailed(r) == r.kind = "raise" \/ (r.kind = "text" /\ ~r.valid)

AllZeroScores(r) ==
    /\ r.type = "object"
    /\ r.toxicity = Num(0)
    /\ r.harassment = Num(0)
    /\ r.hate_speech = Num(0)
    /\ r.inappropriate = Num(0)

\* C6: when the classifier fails, _llm_analysis yields all-zero scores,
\* moderate_comment does not raise, no remote flag is added, and the verdict
\* returned carries exactly the flags of the local checks.
C6_FailOpen ==
    (m.llm_calls = 1 /\ ReplyFailed(m.reply)) =>
        /\ m.pc # "raised"
        /\ ~result.raised
        /\ AllZeroScores(m.llm_result)
        /\ m.st.flags = LocalFlagsOf(comment)
        /\ m.pc = "returned" =>
              result.returned /\ result.verdict.flags = LocalFlagsOf(comment)

\* C6 witness: the classifier call raised on a long profane comment and the
\* verdict returned is the one of the local checks
C6_Witness ==
    /\ m.pc = "returned"
    /\ m.reply.kind = "raise"
    /\ result.returned
    /\ result.verdict.flags = <<"profanity">>
    /\ result.verdict.confidence = 50

\* C7: the severity of a returned verdict is the maximum of the table
\* severities of its flags, and none when it has no flag.
C7_SeverityIsMax ==
    result.returned =>
        SeverityRank(result.verdict.severity) =
            MaxOf({0} \cup { SeverityRank(FlagSeverity(f)) : f \in Range(result.verdict.flags) })

\* C7 witness: toxicity (high) was followed by inappropriate (medium) and the
\* verdict is high
C7_Witness ==
    /\ result.returned
    /\ result.verdict.flags = <<"spam", "toxicity", "inappropriate">>
    /\ result.verdict.severity = "high"

\* the sub-check severities applied so far, folded in the order p
RECURSIVE FoldSeverity(_, _, _)
FoldSeverity(flags, p, n) ==
    IF n = 0 THEN "none"
    ELSE _escalate_severity(FoldSeverity(flags, p, n - 1), FlagSeverity(flags[p[n]]))

C8_NeverLower == SeverityRank(m'.st.severity) >= SeverityRank(m.st.severity)
C8_CriticalStays ==
    /\ m.st.severity = "critical" => m'.st.severity = "critical"
    /\ (m.st.severity = "critical" /\ result'.returned) =>
          result'.verdict.severity = "critical"
C8_AnyOrder ==
    \A p \in Permutations(1..Len(m.st.flags)) :
        FoldSeverity(m.st.flags, p, Len(m.st.flags)) = m.st.severity

\* C8: escalation never lowers the severity, critical once reached stays to
\* the verdict, and applying the same sub-check severities in any order gives
\* the severity the pipeline holds.
C8_Escalation == [][C8_NeverLower /\ C8_CriticalStays]_vars /\ []C8_AnyOrder

\* C8 witness: critical was reached by harassment before the lower
\* inappropriate check ran, and the verdict is critical
C8_Witness ==
    /\ result.returned
    /\ result.verdict.flags = <<"profanity", "harassment", "inappropriate">>
    /\ result.verdict.severity = "critical"

\* C9: for a comment in which the lexicon check finds profanity, the flag is
\* there from layer 1 on, and the verdict returned has "profanity" in flags,
\* severity at least medium and is_appropriate false.
C9_Profanity ==
    comment.profane =>
        /\ m.pc \notin {"idle", "layer1"} => "profanity" \in Range(m.st.flags)
        /\ result.returned =>
              /\ "profanity" \in Range(result.verdict.flags)
              /\ SeverityRank(result.verdict.severity) >= 2
              /\ ~result.verdict.is_appropriate

\* C9 witness: a profane comment that the spam check also flags and the
\* classifier scores as clean
C9_Witness ==
    /\ comment.profane
    /\ result.returned
    /\ m.llm_calls = 1
    /\ result.verdict.flags = <<"profanity", "spam">>
    /\ result.verdict.severity = "medium"

IsPrefix(a, b) == Len(a) <= Len(b) /\ \A i \in 1..Len(a) : a[i] = b[i]

C10_KeepsFlags ==
    /\ IsPrefix(m.st.flags, m'.st.flags)
    /\ result'.returned => result'.verdict.flags = m.st.flags
C10_State ==
    /\ Cardinality(Range(m.st.flags)) = Len(m.st.flags)
    /\ (result.returned /\ TextIsSpam(comment)) => "spam" \in Range(result.verdict.flags)

\* C10: the checks only add flags: every step keeps the flags already there,
\* no flag is there twice, the verdict returns them all, and a text matching a
\* spam pattern or the excessive-capitals rule has "spam" in the final flags.
C10_OnlyAdds == [][C10_KeepsFlags]_vars /\ []C10_State

\* C10 witness: a text that only the excessive-capitals rule matches, with a
\* remote flag added after the spam flag
C10_Witness ==
    /\ comment.pats = {}
    /\ TextIsSpam(comment)
    /\ result.returned
    /\ result.verdict.flags = <<"spam", "hate_speech">>

(***************************************************************************)
(* Properties of get_personalized_recommendations                           *)
(***************************************************************************)
RecOutputIds == { rec_out.recommendations[i].id : i \in 1..Len(rec_out.recommendations) }
\* the recommendations the remote model has returned so far, batch by batch
RECURSIVE ItemsOfBatches(_)
ItemsOfBatches(bs) ==
    IF bs = <<>> THEN <<>> ELSE Head(bs).items \o ItemsOfBatches(Tail(bs))
\* the number of batches of a list of k candidates
NumBatches(k) == (k + rec_batch_size - 1) \div rec_batch_size
FailedBatches == { i \in 1..Len(rec.batches) : rec.batches[i].failed }
\* how often x occurs in the sequence l
Occurrences(l, x) == Cardinality({ i \in 1..Len(l) : l[i] = x })

\* C11: with exclude_registered=True no event whose id is in
\* registration_history.event_ids is among the recommendations returned, also
\* when the remote model returns the id of a registered event.
C11_RegisteredExcluded ==
    (rec_out.status = "returned" /\ rec.exclude_registered) =>
        RecOutputIds \cap rec.registered_ids = {}

\* the remote model recommended a registered event, beside another one that
\* is returned
C11_Witness ==
    /\ rec_out.status = "returned"
    /\ rec.exclude_registered
    /\ \E x \in Range(ItemsOfBatches(rec.batches)) : x.event_id \in rec.registered_ids
    /\ rec_out.recommendations # <<>>

\* C12: get_personalized_recommendations returns at most limit
\* recommendations (none for a limit below 1), whatever the number of
\* candidates, the batch replies and the limit.
C12_AtMostLimit ==
    rec_out.status = "returned" =>
        Len(rec_out.recommendations) <= Max(rec.limit, 0)

\* C13: the recommendation_score values of the returned list are
\* non-increasing, also when the remote model returns items without a score
\* (stated for the limits of at least 1, which truncate as intended).
C13_SortedByScore ==
    (rec_out.status = "returned" /\ rec.limit >= 1) =>
        \A i \in 1..Len(rec_out.recommendations) :
            \A j \in i..Len(rec_out.recommendations) :
                rec_out.recommendations[i].recommendation_score.v
                    >= rec_out.recommendations[j].recommendation_score.v

\* C14: no event appears twice in the recommendations returned, whatever the
\* batch replies contain (stated for the limits of at least 1, which
\* truncate as intended).
C14_NoEventTwice ==
    (rec_out.status = "returned" /\ rec.limit >= 1) =>
        \A i \in 1..Len(rec_out.recommendations) :
            \A j \in 1..Len(rec_out.recommendations) :
                rec_out.recommendations[i].id = rec_out.recommendations[j].id => i = j

\* each batch is submitted once, in order, and all of them before the return
C15_EachBatchOnce ==
    /\ \A i \in 1..Len(rec.batches) : rec.batches[i].start = (i - 1) * rec_batch_size
    /\ Len(rec.batches) <= NumBatches(Len(rec.candidate_events))
    /\ (rec_out.status = "returned" /\ rec.candidate_events # <<>>) =>
           Len(rec.batches) = NumBatches(Len(rec.candidate_events))

\* a batch that fails adds nothing, does not raise and does not end the loop
C15_FailedBatchStep ==
    (Len(rec'.batches) = Len(rec.batches) + 1 /\ rec'.batches[Len(rec'.batches)].failed) =>
        /\ rec'.all_recommendations = rec.all_recommendations
        /\ rec_out'.status = "none"
        /\ rec'.pc = "loop"
        /\ rec'.batch_start = rec.batch_start + rec_batch_size

\* what is merged is what the batches that did not fail returned, and without
\* truncation every such item that names a candidate event is returned
C15_OthersMerged ==
    rec_out.status = "returned" =>
        /\ \A x \in RecItems :
               Occurrences(rec.all_recommendations, x)
                   = Occurrences(ItemsOfBatches(rec.batches), x)
        /\ rec.limit >= Len(rec.all_recommendations) =>
               \A x \in Range(ItemsOfBatches(rec.batches)) :
                   x.event_id \in Range(rec.candidate_events) => x.event_id \in RecOutputIds

\* C15: a recommendation batch whose remote call or reply parsing fails
\* contributes zero items and is not retried: each batch is submitted exactly
\* once, the failure does not raise out of get_personalized_recommendations,
\* and the items of the other batches are still merged and returned.
C15_FailedBatch ==
    /\ []C15_EachBatchOnce
    /\ [][C15_FailedBatchStep]_vars
    /\ []C15_OthersMerged

\* the first of two batches failed and the item of the second is returned
C15_Witness ==
    /\ rec_out.status = "returned"
    /\ Len(rec.batches) = 2
    /\ rec.batches[1].failed
    /\ ~rec.batches[2].failed
    /\ rec.batches[2].items # <<>>
    /\ rec_out.recommendations # <<>>

(***************************************************************************)
(* Properties of the HTTP endpoints                                         *)
(***************************************************************************)
Done == h.pc = "done"
Op == OpOf(req.path)
ReRaisingOps ==
    { "get_similar_events", "generate_description", "improve_description",
      "generate_agenda" }
TextGenerationOps ==
    { "generate_description", "improve_description", "generate_agenda",
      "answer_question", "generate_faq", "summarize_event",
      "generate_event_insights" }

\* C16: with OPENAI_API_KEY absent, /moderate/comment, /moderate/batch and
\* /moderate/analyze answer with the fixed 503 payload of code
\* OPENAI_KEY_NOT_CONFIGURED without running any moderation, and the
\* endpoints of the other families never answer 503.
C16_ModerationGuard ==
    (Done /\ ~key_set) =>
        IF req.path \in { "/moderate/comment", "/moderate/batch", "/moderate/analyze" }
        THEN response = KeyNotConfigured /\ ~h.ran
        ELSE req.path \notin ModerationPaths => response.status # 503

\* C17 as stated: in every handler an exception raised while handling the
\* request becomes a 500 whose detail is the exception's string, and the
\* only other error outcome is the 503 of the key guard.
C17_EveryExceptionIs500 ==
    Done =>
        /\ h.outcome = "raised" => response = Http500(h.exc)
        /\ response.status # 200 /\ response.status # 500 => response = KeyNotConfigured

\* C17: in every handler but chat_with_assistant an exception raised in the
\* handler's try becomes a 500 whose detail is the exception's string;
\* chat_with_assistant answers 200 with its canned response instead; a 500
\* has no other cause, and the only other error outcome is the 503 of the
\* key guard, raised before the try of /moderate/comment.
C17_ExceptionHandling ==
    Done =>
        /\ (h.outcome = "raised" /\ req.path # "/assistant/chat") =>
               response = Http500(h.exc)
        /\ (h.outcome = "raised" /\ req.path = "/assistant/chat") =>
               response = Canned200
        /\ response.status = 500 => h.outcome = "raised"
        /\ response.status # 200 /\ response.status # 500 =>
               /\ response = KeyNotConfigured
               /\ req.path = "/moderate/comment"
               /\ ~key_set
               /\ ~h.ran

\* a reply to a batch of /recommendations/personalized broke the code after
\* the try, and the handler answered 500 with the exception's string
C17_Witness ==
    /\ Done
    /\ req.path = "/recommendations/personalized"
    /\ h.outcome = "raised"
    /\ response = Http500("TypeError")

C18_FailStep ==
    h'.failures = h.failures + 1 =>
        IF Op \in ReRaisingOps
        THEN h'.outcome = "raised" /\ h'.exc = "failed: remote"
        ELSE IF Op = "explain_recommendation" /\ req.null_in = "default"
        THEN h'.outcome = "raised" /\ h'.exc = "AttributeError"
        ELSE h'.outcome # "raised"

C18_FailureResponse ==
    Done =>
        /\ h.exc = "failed: remote" =>
               Op \in ReRaisingOps /\ response = Http500("failed: remote")
        /\ (h.failures > 0 /\ h.outcome # "raised") =>
               /\ Op \notin ReRaisingOps
               /\ response.status = 200
               /\ response.body.kind = "fallback"

C19_EmptyDashboard ==
    (req.path = "/analytics/dashboard-insights" /\ req.units = 0) =>
        /\ h.llm_calls = 0
        /\ h.pc # "llm"
        /\ Done =>
               /\ response.status = 200
               /\ response.body.overview = "No events data available for analysis."
               /\ response.body.top_performers = <<>>
               /\ response.body.areas_for_improvement = <<>>
               /\ response.body.action_items = <<>>

C19_Witness ==
    /\ Done
    /\ req.path = "/analytics/dashboard-insights"
    /\ req.units = 0
    /\ h.ran
    /\ response.status = 200

\* C20: each text-generation operation calls the remote model exactly once
\* per request, also when the call fails, and a failure ends in a raised
\* error or in a fallback value.
C20_ExactlyOneCall ==
    (Done /\ Op \in TextGenerationOps) =>
        /\ h.llm_calls = 1
        /\ h.failures > 0 => h.outcome \in { "raised", "fallback" }

(***************************************************************************)
(* State shared between the polling task, its callers and the handlers      *)
(***************************************************************************)
TaskActs == \E t \in TaskIds : TaskStep(t)
FlagWritten == _running' # _running

\* C21: the polling task is the sole writer of the running flag: the flag
\* changes only in a step of that task.
C21_TaskSoleWriter == [][FlagWritten => TaskActs]_vars

C21_Writers == FlagWritten => (start("lifespan") \/ stop("lifespan"))
C21_TaskFrame ==
    TaskActs => UNCHANGED <<_running, _task, caller, modVars, recVars, apiVars>>

\* C21 (amended): the running flag is written only by start() and stop(); the
\* polling task reads it and never writes it, and a step of the task changes
\* nothing but its own locals and the backend's comments: not the task
\* reference, nor any state of a request handler.
C21_FlagWriters == [][C21_Writers /\ C21_TaskFrame]_vars

\* C21 witness: start() has set the flag, the task has worked through a cycle
\* up to its POST, and stop() has cleared the flag and awaits the task
C21_Witness ==
    /\ ~_running
    /\ caller["lifespan"].pc = "in_stop"
    /\ \E t \in TaskIds : tasks[t].pc = "post" /\ tasks[t].cancel /\ _task = t

(***************************************************************************)
(* Properties of the polling cycle's results                                *)
(***************************************************************************)
\* the classifier failed: the call raised, or its text does not parse
FailedReplies == { r \in PollReplies : r.kind = "raise" \/ ~ParsesAsJson(r) }
CurrentComment(t) == tasks[t].comments[tasks[t].idx]
LocallyClean(id) == SpamLayer(ProfanityLayer(InitLocals, TextOf(id)), TextOf(id)).flags = <<>>
FailOpenEntry(id) ==
    [ feedbackId |-> id, isAppropriate |-> TRUE, flags |-> <<>>,
      severity |-> "none", confidence |-> 50, aiSuggestion |-> "approve",
      aiReasoning |-> "None" ]
Posted(t) == tasks[t].pc = "post" /\ tasks'[t].pc = "sleep" /\ unmoderated' # unmoderated

C22_FailedReplyStep(t) ==
    \A reply \in FailedReplies :
        (LLMReply(t, reply) /\ LocallyClean(CurrentComment(t).id)) =>
            /\ IsPrefix(Append(tasks[t].results, FailOpenEntry(CurrentComment(t).id)),
                        tasks'[t].results)
            /\ tasks'[t].pc \in {"llm", "post"}
C22_KeptUntilPost(t) ==
    (tasks[t].pc = "llm" /\ tasks'[t].pc \in {"llm", "post"}) =>
        IsPrefix(tasks[t].results, tasks'[t].results)
C22_PostCarriesResults(t) ==
    Posted(t) => (unmoderated \ unmoderated') \subseteq FeedbackIds(tasks[t].results)

\* C22: moderation fails open end to end: when the classifier fails (raises,
\* or answers text that does not parse) for a fetched comment that no local
\* check flags, the cycle appends for it the result isAppropriate = true,
\* aiSuggestion = "approve", flags empty, severity none, confidence 0.5, keeps
\* it while the other comments are moderated, and goes on to POST the results.
C22_FailOpenPosted ==
    [][\A t \in TaskIds :
          C22_FailedReplyStep(t) /\ C22_KeptUntilPost(t) /\ C22_PostCarriesResults(t)]_vars

\* C22 witness: the POST of a cycle is in flight and carries the fail-open
\* result of a comment for which the classifier failed
C22_Witness ==
    \E t \in TaskIds :
        /\ tasks[t].pc = "post"
        /\ \E i \in 1..Len(tasks[t].results) :
              /\ tasks[t].results[i] = FailOpenEntry(tasks[t].results[i].feedbackId)
              /\ LocallyClean(tasks[t].results[i].feedbackId)

(***************************************************************************)
(* Further properties of moderate_comment                                   *)
(***************************************************************************)
ModEnded == m.pc \in {"return", "returned", "raised"}
MustConsult(text) == text.len > 20 \/ LocalFlagsOf(text) = <<>>

C23_Order ==
    /\ m'.pc = "layer2" => m.pc = "layer1"
    /\ m'.pc = "layer3" => m.pc = "layer2"
    /\ m'.pc \in {"return", "raised"} => m.pc = "layer3"
    /\ m'.pc = "returned" => m.pc = "return"
    /\ m.pc = "layer1" => m'.st.flags \in {<<>>, <<"profanity">>}
    /\ m.pc = "layer2" => m'.st.flags \in {m.st.flags, Append(m.st.flags, "spam")}
    /\ m'.llm_calls # m.llm_calls => m.pc = "layer3" /\ m'.llm_calls = m.llm_calls + 1
C23_Calls ==
    /\ m.pc \in {"layer1", "layer2", "layer3"} => m.llm_calls = 0
    /\ ModEnded => m.llm_calls = IF MustConsult(comment) THEN 1 ELSE 0
C23_NotConsulted ==
    (result.returned /\ m.llm_calls = 0) =>
        /\ result.verdict.confidence = 100
        /\ result.verdict.flags = LocalFlagsOf(comment)

\* C23: moderate_comment runs its checks in the order profanity, spam, remote
\* classifier; it consults the classifier exactly once when the comment is
\* longer than 20 characters or no local check flagged it, and not at all
\* otherwise; when the classifier is not consulted the verdict has confidence
\* 1.0 and only the local flags.
C23_ThreeChecks == [][C23_Order]_vars /\ []C23_Calls /\ []C23_NotConsulted

\* C23 witness: a short comment flagged by both local checks was returned
\* without consulting the classifier
C23_Witness ==
    /\ m.pc = "returned"
    /\ m.llm_calls = 0
    /\ comment.len <= 20
    /\ result.verdict.flags = <<"profanity", "spam">>
    /\ result.verdict.confidence = 100

\* position of a fetched comment in the fetched list
PosIn(comments, id) == CHOOSE i \in 1..Len(comments) : comments[i].id = id
InFetchOrder(results, comments) ==
    \A i, j \in 1..Len(results) :
        i < j => PosIn(comments, results[i].feedbackId) < PosIn(comments, results[j].feedbackId)

C24_OnePost(t) ==
    /\ (tasks'[t].pc = "post" /\ tasks[t].pc # "post") => tasks[t].pc \in {"get", "llm"}
    /\ tasks[t].pc = "post" => tasks'[t].pc \in {"post", "sleep", "done"}
    /\ (tasks[t].pc = "sleep" /\ tasks[t].fail \in {"fetch_status", "fetch_error"}) =>
          tasks'[t].pc # "post"
C24_Posted(t) ==
    tasks[t].pc = "post" =>
        /\ tasks[t].comments # <<>>
        /\ tasks[t].results # <<>>
        /\ FeedbackIds(tasks[t].results) \subseteq IdsOf(tasks[t].comments)
        /\ Cardinality(FeedbackIds(tasks[t].results)) = Len(tasks[t].results)
        /\ InFetchOrder(tasks[t].results, tasks[t].comments)

CannotFail(c) ==
    /\ c.shape = "ok"
    /\ ~ConsultsLLM(SpamLayer(ProfanityLayer(InitLocals, TextOf(c.id)), TextOf(c.id)),
                    TextOf(c.id))
LoopEnds(t) == tasks[t].pc \in {"get", "llm"} /\ tasks'[t].pc \in {"post", "sleep"}

C25_LoopGoesOn(t) ==
    /\ LoopEnds(t) => tasks'[t].fail # "unexpected"
    /\ (tasks[t].pc = "llm" /\ tasks[t].results # <<>>) =>
          \/ tasks'[t].pc \in {"llm", "post"} /\ IsPrefix(tasks[t].results, tasks'[t].results)
          \/ tasks'[t].pc = "done"
C25_OthersPosted(t) ==
    (LoopEnds(t) /\ tasks'[t].pc = "post") =>
        \A i \in 1..Len(tasks'[t].comments) :
            CannotFail(tasks'[t].comments[i]) =>
                tasks'[t].comments[i].id \in FeedbackIds(tasks'[t].results)

\* C25: a failure while processing one fetched comment (its moderation
\* raises, or its record lacks a field) removes only that comment: the for
\* loop goes on, the verdicts already held are kept, and every other comment
\* of the batch has its verdict in the POST of the same cycle.
C25_OnlyThatComment ==
    [][\A t \in TaskIds : C25_LoopGoesOn(t) /\ C25_OthersPosted(t)]_vars

(***************************************************************************)
(* start() and stop() called by concurrent coroutines                       *)
(***************************************************************************)
\* the tasks that can still perform backend requests
ActiveTasks == { t \in TaskIds : Unfinished(t) /\ ~tasks[t].cancel }

C26_CancelledSilent == \A t \in TaskIds : tasks[t].cancel => ~IssuesRequest(t)
C26_OneActive == Cardinality(ActiveTasks) <= 1
C26_AfterCalls ==
    NoCallInProgress =>
        /\ UnfinishedTasks = ActiveTasks
        /\ _running <=> (_task # 0 /\ _task \in ActiveTasks)
        /\ ActiveTasks \subseteq {_task}

\* C26: under any interleaving of start() and stop() calls of concurrent
\* coroutines, a cancelled polling task issues no further GET or POST, at no
\* time can two polling tasks both perform backend requests, and once every
\* call has completed the task the service references is running exactly when
\* the running flag is true (and no other task is left unfinished).
C26_Interleavings ==
    /\ [][C26_CancelledSilent]_vars
    /\ []C26_OneActive
    /\ []C26_AfterCalls

\* C26 witness: start() was called while a stop() is still awaiting the task
\* it cancelled; the new task has issued its GET and the old one has not
\* finished yet
C26_Witness ==
    /\ \E c \in Callers : caller[c].pc = "in_stop" /\ caller[c].awaiting = 1
    /\ tasks[1].cancel
    /\ Unfinished(1)
    /\ _running
    /\ _task = 2
    /\ tasks[2].pc = "get"

\* C27: moderate_comment returns a verdict and does not raise, whatever the
\* classifier replies: a raised error, unparseable text, fenced JSON, JSON
\* that is not an object, an object missing scores, or an object whose scores
\* are not numbers.
C27_AlwaysVerdict ==
    /\ m.pc # "raised"
    /\ ~result.raised
    /\ m.pc = "returned" => result.returned

C28_Verdict(v) ==
    /\ v.is_appropriate <=> v.flags = <<>>
    /\ v.is_appropriate <=> v.severity = "none"
    /\ v.is_appropriate <=> v.suggestion = "None"
    /\ v.is_appropriate <=> v.detected_issues.none
    /\ v.detected_issues.none <=> v.detected_issues.keys = {}
C28_Entry(e) ==
    /\ e.aiSuggestion = "approve" <=> e.isAppropriate
    /\ e.aiSuggestion \in {"approve", "remove"}
    /\ e.aiReasoning = "None" <=> e.flags = <<>>

\* C28: every verdict moderate_comment returns has is_appropriate true exactly
\* when flags is empty, exactly when severity is none, exactly when suggestion
\* is None, and exactly when detected_issues is None; so the result the
\* polling cycle builds from it has aiSuggestion "approve" exactly when
\* isAppropriate is true and aiReasoning None exactly when flags is empty.
C28_VerdictCoherent ==
    result.returned =>
        /\ C28_Verdict(result.verdict)
        /\ \A id \in CommentIds : C28_Entry(ResultEntry(id, result.verdict))

\* C28 witness: a verdict flagged by the classifier alone: not appropriate,
\* severity high, with a suggestion and its detected issue
C28_Witness ==
    /\ result.returned
    /\ m.llm_calls = 1
    /\ ~result.verdict.is_appropriate
    /\ result.verdict.flags = <<"toxicity">>
    /\ result.verdict.severity = "high"
    /\ result.verdict.suggestion # "None"
    /\ result.verdict.detected_issues.keys = {"toxicity"}
    /\ ResultEntry(1, result.verdict).aiSuggestion = "remove"

(***************************************************************************)
(* Further properties of get_personalized_recommendations                   *)
(***************************************************************************)
\* the events of the batch submitted at batch_start
BatchEvents(batch_start) ==
    SubSeq(rec.candidate_events, batch_start + 1,
           IF batch_start + rec_batch_size < Len(rec.candidate_events)
           THEN batch_start + rec_batch_size ELSE Len(rec.candidate_events))
\* the candidates submitted so far, batch after batch
RECURSIVE Submitted(_)
Submitted(k) == IF k = 0 THEN <<>> ELSE Submitted(k - 1) \o BatchEvents(rec.batches[k].start)

C29_InOrder ==
    /\ \A i \in 1..Len(rec.batches) :
          /\ rec.batches[i].start = (i - 1) * rec_batch_size
          /\ Len(BatchEvents(rec.batches[i].start)) \in 1..rec_batch_size
    /\ IsPrefix(Submitted(Len(rec.batches)), rec.candidate_events)
C29_AllSubmitted ==
    (rec.pc = "done" /\ rec.limit >= 1) =>
        /\ Len(rec.batches) = NumBatches(Len(rec.candidate_events))
        /\ Submitted(Len(rec.batches)) = rec.candidate_events
C29_NoCandidates ==
    (rec.pc = "done" /\ rec.candidate_events = <<>>) =>
        /\ rec.batches = <<>>
        /\ rec_out.status = "returned"
        /\ rec_out.recommendations = <<>>

\* C29: the batches partition the candidate list: they are submitted one
\* after the other in input order, each holds between 1 and 20 events, and
\* when the call has ended N >= 1 candidates have made exactly ceil(N/20)
\* remote calls with every candidate in exactly one batch; with no event, or
\* with every event filtered out as registered, no remote call is made and an
\* empty list is returned (the count is stated for the limits of at least 1).
C29_BatchesPartition == C29_InOrder /\ C29_AllSubmitted /\ C29_NoCandidates

ReturnedByModel == { x.event_id : x \in Range(ItemsOfBatches(rec.batches)) }

\* C30: every recommendation returned is one of the candidate events of the
\* request, found by the event_id of a recommendation of the remote model; an
\* event_id that matches no candidate produces no output item.
C30_OnlyCandidates ==
    rec_out.status = "returned" =>
        /\ RecOutputIds \subseteq Range(rec.candidate_events)
        /\ RecOutputIds \subseteq ReturnedByModel
        /\ \A id \in ReturnedByModel \ Range(rec.candidate_events) : id \notin RecOutputIds
        /\ Len(rec_out.recommendations) <= Len(rec.all_recommendations)

\* C30 witness: the remote model returned the id of no available event beside
\* the id of a candidate; nothing was truncated, and only the candidate is
\* returned
C30_Witness ==
    /\ rec_out.status = "returned"
    /\ rec.limit >= Len(rec.all_recommendations)
    /\ ReturnedByModel \ Range(rec.available_events) # {}
    /\ rec_out.recommendations # <<>>

====
